---------------------------- MODULE Spec2Model ----------------------------
(***************************************************************************)
(* Model of the order-placement screen (src/app/place-order.tsx,           *)
(* PlaceOrderScreen): delivery-location reconciliation, cart, inventory    *)
(* loads and order submission.                                             *)
(*                                                                         *)
(* JavaScript numbers are fixed-point integers with four decimals          *)
(* (0.3476 is 3476) plus the special values NaN, +Infinity, -Infinity and  *)
(* undefined.  Strings are sequences of one-character strings, so that     *)
(* toString, parseFloat, trim and includes are computed, not assumed.      *)
(*                                                                         *)
(* React semantics: a handler the user triggers reads the state of the     *)
(* latest render; the continuation of an async function after an await     *)
(* still reads the values captured by the render in which it was called.   *)
(***************************************************************************)
EXTENDS Integers, Sequences, FiniteSets, TLC

---------------------------------------------------------------------------
(* JavaScript numbers *)

Scale == 10000

Num(v) == [k |-> "num", v |-> v]
NaN == [k |-> "nan", v |-> 0]
PosInf == [k |-> "inf", v |-> 1]
NegInf == [k |-> "inf", v |-> -1]
Undefined == [k |-> "undef", v |-> 0]

\* isNaN(x): Number(undefined) is NaN
isNaN(x) == x.k \in {"nan", "undef"}

\* x is truthy: neither undefined, NaN nor 0
Truthy(x) == (x.k = "num" /\ x.v # 0) \/ x.k = "inf"

\* x >= c and x <= c for a finite c; any comparison with NaN is false
Ge(x, c) == (x.k = "num" /\ x.v >= c) \/ (x.k = "inf" /\ x.v = 1)
Le(x, c) == (x.k = "num" /\ x.v <= c) \/ (x.k = "inf" /\ x.v = -1)

\* validateCoordinates without its range checks
validateCoordinatesAnyRange(lat, lng) ==
    /\ ~isNaN(lat)
    /\ ~isNaN(lng)
    /\ lat.k = "num"
    /\ lng.k = "num"

\* the validator with the non-zero requirement an earlier revision had
validateCoordinatesNonZero(lat, lng) ==
    /\ ~isNaN(lat)
    /\ ~isNaN(lng)
    /\ Ge(lat, -90 * Scale)
    /\ Le(lat, 90 * Scale)
    /\ Ge(lng, -180 * Scale)
    /\ Le(lng, 180 * Scale)
    /\ lat # Num(0)
    /\ lng # Num(0)

validateCoordinates(lat, lng) ==
    /\ ~isNaN(lat)
    /\ ~isNaN(lng)
    /\ Ge(lat, -90 * Scale)
    /\ Le(lat, 90 * Scale)
    /\ Ge(lng, -180 * Scale)
    /\ Le(lng, 180 * Scale)

---------------------------------------------------------------------------
(* Strings *)

DigitChars == <<"0", "1", "2", "3", "4", "5", "6", "7", "8", "9">>
IsDigit(c) == \E d \in 1..10 : DigitChars[d] = c
DigitVal(c) == (CHOOSE d \in 1..10 : DigitChars[d] = c) - 1

RECURSIVE NatToStr(_)
NatToStr(n) ==
    IF n < 10 THEN <<DigitChars[n + 1]>>
    ELSE NatToStr(n \div 10) \o <<DigitChars[(n % 10) + 1]>>

RECURSIVE StrToNat(_)
StrToNat(s) ==
    IF s = <<>> THEN 0
    ELSE StrToNat(SubSeq(s, 1, Len(s) - 1)) * 10 + DigitVal(s[Len(s)])

RECURSIVE StripZeros(_)
StripZeros(s) ==
    IF s # <<>> /\ s[Len(s)] = "0" THEN StripZeros(SubSeq(s, 1, Len(s) - 1))
    ELSE s

\* the four fraction digits of f (0..Scale-1), zero padded
FracDigits(f) == Tail(NatToStr(Scale + f))

StrNaN == <<"N", "a", "N">>
StrInfinity == <<"I", "n", "f", "i", "n", "i", "t", "y">>

\* toString keeping the whole part of a number only
NumToStringWhole(x) ==
    IF x.k = "nan" THEN StrNaN
    ELSE IF x.k = "inf" THEN (IF x.v = 1 THEN StrInfinity ELSE <<"-">> \o StrInfinity)
    ELSE LET a == IF x.v < 0 THEN -x.v ELSE x.v
         IN (IF x.v < 0 THEN <<"-">> ELSE <<>>) \o NatToStr(a \div Scale)

\* Number.prototype.toString for the values of the model
NumToString(x) ==
    IF x.k = "nan" THEN StrNaN
    ELSE IF x.k = "inf" THEN (IF x.v = 1 THEN StrInfinity ELSE <<"-">> \o StrInfinity)
    ELSE LET a == IF x.v < 0 THEN -x.v ELSE x.v
             frac == StripZeros(FracDigits(a % Scale))
         IN (IF x.v < 0 THEN <<"-">> ELSE <<>>)
            \o NatToStr(a \div Scale)
            \o (IF frac = <<>> THEN <<>> ELSE <<".">> \o frac)

IsSpace(c) == c = " "

RECURSIVE SkipSpaces(_)
SkipSpaces(s) == IF s # <<>> /\ IsSpace(s[1]) THEN SkipSpaces(Tail(s)) ELSE s

RECURSIVE DropTrailingSpaces(_)
DropTrailingSpaces(s) ==
    IF s # <<>> /\ IsSpace(s[Len(s)]) THEN DropTrailingSpaces(SubSeq(s, 1, Len(s) - 1))
    ELSE s

\* String.prototype.trim
Trim(s) == DropTrailingSpaces(SkipSpaces(s))

HasPrefix(s, p) == Len(s) >= Len(p) /\ SubSeq(s, 1, Len(p)) = p

\* String.prototype.includes
Includes(s, sub) ==
    \E i \in 0..(Len(s) - Len(sub)) : SubSeq(s, i + 1, i + Len(sub)) = sub

RECURSIVE DigitPrefix(_)
DigitPrefix(s) ==
    IF s # <<>> /\ IsDigit(s[1]) THEN <<s[1]>> \o DigitPrefix(Tail(s)) ELSE <<>>

\* the value of a fraction digit string in units of 1/Scale (four digits kept)
FracVal(fp) ==
    LET padded == SubSeq(fp \o <<"0", "0", "0", "0">>, 1, 4)
    IN StrToNat(padded)

\* parseFloat: leading white space, sign, then "Infinity" or the longest
\* prefix digits[.digits]; NaN when no digit was read.  (No text of the
\* model carries an exponent.)
parseFloat(s) ==
    LET t == SkipSpaces(s)
        neg == t # <<>> /\ t[1] = "-"
        u == IF t # <<>> /\ t[1] \in {"+", "-"} THEN Tail(t) ELSE t
        ip == DigitPrefix(u)
        rest == SubSeq(u, Len(ip) + 1, Len(u))
        fp == IF rest # <<>> /\ rest[1] = "." THEN DigitPrefix(Tail(rest)) ELSE <<>>
        mag == StrToNat(ip) * Scale + FracVal(fp)
    IN IF HasPrefix(u, StrInfinity) THEN (IF neg THEN NegInf ELSE PosInf)
       ELSE IF Len(ip) + Len(fp) = 0 THEN NaN
       ELSE Num(IF neg THEN -mag ELSE mag)

---------------------------------------------------------------------------
(* Bounds and input sets *)

\* largest stockQuantity the inventory API reports
MaxStock == 3
\* getAllGasCylinders calls that may be outstanding together
MaxLoads == 2
\* createOrder calls that may be outstanding together
MaxPending == 2
\* getCurrentPositionAsync calls of the current-location button outstanding together
MaxLocating == 1
\* reverseGeocodeAsync calls that may be outstanding together
MaxGeocodes == 2

Str2 == <<"2">>
Str1p0 == <<"1", ".", "0">>
Str95 == <<"9", "5">>
Str32p5 == <<"3", "2", ".", "5">>
StrKla == <<"K", "l", "a">>
StrBlank == <<" ">>
StrKlaPadded == StrBlank \o StrKla \o StrBlank
StrGate == <<"g", "a", "t", "e">>
StrStock == <<"s", "t", "o", "c", "k">>
StrLowStock == <<"l", "o", "w", " ">> \o StrStock
StrTimeout == <<"t", "i", "m", "e", "o", "u", "t">>
StrLoadFailed == <<"F", "a", "i", "l", "e", "d", " ", "t", "o", " ", "l", "o", "a", "d">>

\* what the user may type into the text inputs
LatTexts == {<<>>, Str1p0}
\* the latitude texts typed in the order flow
OrderLatTexts == {Str2, Str95}
LngTexts == {<<>>, Str32p5}
AddressTexts == {StrBlank, StrKlaPadded}
InstructionTexts == {StrGate, StrBlank}

\* err.message of a rejected API call; <<>> is a missing or empty message
LoadErrors == {<<>>}
OrderErrors == {<<>>, StrLowStock}

\* where a loadCylinders call was made: "stock" is the catch branch of placeOrder,
\* "other" the mount effect, the Retry button and the New Order choice
LoadOrigins == {"stock", "other"}

VARIABLES
    \* useAuth(): the session, and the coordinates and address stored for the user
    token, userLat, userLng, userAddress,
    \* the ids of the products the inventory API knows, in the order it lists them
    catalogue,
    \* "initial" after the first render, "mounted" once the mount effect has run
    phase,
    \* useState of PlaceOrderScreen
    cylinders, cart, deliveryAddress, deliveryLat, deliveryLng, instructions,
    loading, error, showMap, mapRegion, selectedLocation, locationPermission,
    mapError, mapReady,
    \* outstanding getAllGasCylinders calls, per call site
    loads,
    \* the number of outstanding createOrder calls, and the payload of the call the
    \* last step issued (NoOrder when it issued none)
    pendingOrders, orderData,
    \* open "Order Placed!" dialogs, the title of the Alert the last step raised
    \* ("none" when it raised none)
    placedAlerts, notice,
    \* an inventory load that the catch branch of placeOrder started has completed
    stockRefreshed,
    \* the disabled prop the last render gave the Place Order button
    orderBtnDisabled,
    \* requestLocationPermission: its position, the text fields its closure holds,
    \* and the position its getCurrentPositionAsync resolved with (NoFix: none yet)
    permPc, capLat, capLng, mountFix,
    \* outstanding getCurrentPositionAsync calls of getCurrentLocation, and the
    \* coordinates of the outstanding reverseGeocodeAsync calls
    locating, geocodes,
    \* validateCoordinates applied to drawn inputs
    vLat, vLng, vResult,
    \* what the last step consumed from outside the component: a map press event,
    \* a device position, a lookup result, the arguments of a call (NoInput when
    \* the step consumed nothing of the kind)
    lastInput,
    \* the setTimeout of the map loading effect: the whole time units left before
    \* it fires, 0 when no timer is pending
    mapTimeout,
    \* the time units the picker has been showing the loading map
    elapsed,
    \* ForgotPasswordScreen: its useState fields
    email, resetCode, newPassword, confirmPassword, isLoading, showNewPassword,
    showConfirmPassword, step,
    \* ForgotPasswordScreen: the outstanding forgotPassword or resetPassword call
    \* with its arguments (NoRequest: none), the title of the Alert on screen
    \* ("none": no alert), and where the router is ("open": on this screen)
    resetPending, resetAlert, resetRoute

authVars == <<token, userLat, userLng, userAddress, catalogue>>
mapVars == <<showMap, mapRegion, selectedLocation, locationPermission, mapError,
             mapReady, locating, geocodes>>
permVars == <<permPc, capLat, capLng, mountFix>>
valVars == <<vLat, vLng, vResult>>
textVars == <<deliveryAddress, deliveryLat, deliveryLng, instructions>>
orderVars == <<pendingOrders>>
timerVars == <<mapTimeout, elapsed>>
resetVars == <<email, resetCode, newPassword, confirmPassword, isLoading,
               showNewPassword, showConfirmPassword, step, resetPending, resetAlert,
               resetRoute>>

vars == <<authVars, mapVars, permVars, valVars, textVars, orderVars, orderData, phase,
          cylinders, cart, loading, error, loads, placedAlerts, notice,
          stockRefreshed, orderBtnDisabled, lastInput, timerVars, resetVars>>

---------------------------------------------------------------------------
(* Initial state: the useState initializers *)

DefaultLat == 3476
DefaultLng == 325825
LatitudeDelta == 922
LongitudeDelta == 421

\* (lat && !isNaN(lat)) ? lat.toString() : ''
SeedText(x) == IF Truthy(x) /\ ~isNaN(x) THEN NumToString(x) ELSE <<>>

\* (lat && !isNaN(lat)) ? lat : 0.3476
SeedCoord(x, default) == IF Truthy(x) /\ ~isNaN(x) THEN x ELSE Num(default)

Region(lat, lng) ==
    [latitude |-> lat, longitude |-> lng,
     latitudeDelta |-> LatitudeDelta, longitudeDelta |-> LongitudeDelta]

Point(lat, lng) == [latitude |-> lat, longitude |-> lng]

NoOrder == [items |-> <<>>]

NoInput == [kind |-> "none"]

\* setTimeout(..., 30000), in seconds
MapTimeoutDelay == 30

NoFix == [has |-> FALSE, latitude |-> Undefined, longitude |-> Undefined]

NoLoads == [o \in LoadOrigins |-> 0]

LoadsInFlight == loads["stock"] + loads["other"]

\* canPlaceOrder() without the loading flag
canPlaceOrderNoLoading(c, addr, lat, lng, ld) ==
    /\ Len(c) > 0
    /\ Trim(addr) # <<>>
    /\ validateCoordinates(parseFloat(lat), parseFloat(lng))

\* canPlaceOrder() over the state of one render
canPlaceOrder(c, addr, lat, lng, ld) ==
    /\ Len(c) > 0
    /\ Trim(addr) # <<>>
    /\ validateCoordinates(parseFloat(lat), parseFloat(lng))
    /\ ~ld

\* the map is loading: the condition under which the effect arms its timer
MapLoading(shown, failed, ready) == shown /\ ~failed /\ ~ready

\* the map loading effect without its cleanup: a pending timer is never cleared
MapTimeoutEffectNoCleanup ==
    mapTimeout' =
        IF <<showMap', mapError', mapReady'>> # <<showMap, mapError, mapReady>>
           /\ MapLoading(showMap', mapError', mapReady')
        THEN MapTimeoutDelay
        ELSE mapTimeout

\* the map loading effect after a render: when a dependency changed, its cleanup
\* clears the pending timer and the effect arms a new one if the map is loading
MapTimeoutEffect ==
    mapTimeout' =
        IF <<showMap', mapError', mapReady'>> = <<showMap, mapError, mapReady>>
        THEN mapTimeout
        ELSE IF MapLoading(showMap', mapError', mapReady') THEN MapTimeoutDelay ELSE 0

\* the loading time starts at 0 when the picker opens and stops with the loading
MapClock ==
    elapsed' =
        IF MapLoading(showMap', mapError', mapReady') /\ showMap THEN elapsed ELSE 0

\* the render after a state update: disabled={!canPlaceOrder()}, then the effects
Render ==
    /\ orderBtnDisabled' =
           ~canPlaceOrder(cart', deliveryAddress', deliveryLat', deliveryLng', loading')
    /\ MapTimeoutEffect
    /\ MapClock

NoRequest == [kind |-> "none"]

\* ForgotPasswordScreen: the useState initializers
InitReset ==
    /\ email = <<>>
    /\ resetCode = <<>>
    /\ newPassword = <<>>
    /\ confirmPassword = <<>>
    /\ isLoading = FALSE
    /\ showNewPassword = FALSE
    /\ showConfirmPassword = FALSE
    /\ step = 1
    /\ resetPending = NoRequest
    /\ resetAlert = "none"
    /\ resetRoute = "open"

InitScreen ==
    /\ InitReset
    /\ phase = "initial"
    /\ cylinders = <<>>
    /\ cart = <<>>
    /\ deliveryAddress = userAddress
    /\ deliveryLat = SeedText(userLat)
    /\ deliveryLng = SeedText(userLng)
    /\ instructions = <<>>
    /\ loading = FALSE
    /\ error = <<>>
    /\ showMap = FALSE
    /\ mapRegion = Region(SeedCoord(userLat, DefaultLat), SeedCoord(userLng, DefaultLng))
    /\ selectedLocation = Point(SeedCoord(userLat, DefaultLat), SeedCoord(userLng, DefaultLng))
    /\ locationPermission = FALSE
    /\ mapError = FALSE
    /\ mapReady = FALSE
    /\ loads = NoLoads
    /\ pendingOrders = 0
    /\ orderData = NoOrder
    /\ placedAlerts = 0
    /\ notice = "none"
    /\ stockRefreshed = FALSE
    /\ orderBtnDisabled =
           ~canPlaceOrder(cart, deliveryAddress, deliveryLat, deliveryLng, loading)
    /\ permPc = "idle"
    /\ capLat = <<>>
    /\ capLng = <<>>
    /\ mountFix = NoFix
    /\ locating = 0
    /\ geocodes = <<>>
    /\ lastInput = NoInput
    /\ mapTimeout = 0
    /\ elapsed = 0

InitNoValidate ==
    /\ vLat = NaN
    /\ vLng = NaN
    /\ vResult = "unset"

---------------------------------------------------------------------------
(* Inventory, cart and submission *)

Product(id, stock, avail) == [id |-> id, stockQuantity |-> stock, isAvailable |-> avail]

\* the stock quantities the inventory API reports: none, one, the largest
StockLevels == {0, 1, MaxStock}

\* what getAllGasCylinders may return: every product of the catalogue, each with
\* some stock and availability
Responses ==
    {[i \in 1..Len(catalogue) |-> Product(catalogue[i], st[i], av[i])] :
        st \in [1..Len(catalogue) -> StockLevels],
        av \in [1..Len(catalogue) -> BOOLEAN]}

IsOffered(c) == c.isAvailable /\ c.stockQuantity > 0

\* the filter keeping every product that has stock, available or not
FilterInStock(data) == SelectSeq(data, LAMBDA c : c.stockQuantity > 0)

\* data.filter(c => c.isAvailable && c.stockQuantity > 0)
FilterAvailable(data) == SelectSeq(data, IsOffered)

CartItem(cylinder, q) ==
    [id |-> cylinder.id, stockQuantity |-> cylinder.stockQuantity,
     isAvailable |-> cylinder.isAvailable, quantity |-> q]

\* prev.find(item => item.id === id): the index of the line, 0 when absent
FindLine(prev, id) ==
    IF \E i \in 1..Len(prev) : prev[i].id = id
    THEN CHOOSE i \in 1..Len(prev) :
             prev[i].id = id /\ \A j \in 1..(i - 1) : prev[j].id # id
    ELSE 0

\* addToCart without its stock check
addToCartNoLimit(prev, cylinder) ==
    LET e == FindLine(prev, cylinder.id)
    IN IF e # 0
       THEN [i \in 1..Len(prev) |->
                IF prev[i].id = cylinder.id
                THEN [prev[i] EXCEPT !.quantity = @ + 1]
                ELSE prev[i]]
       ELSE Append(prev, CartItem(cylinder, 1))

\* the updater addToCart hands to setCart
addToCart(prev, cylinder) ==
    LET e == FindLine(prev, cylinder.id)
    IN IF e # 0
       THEN IF prev[e].quantity >= cylinder.stockQuantity THEN prev
            ELSE [i \in 1..Len(prev) |->
                     IF prev[i].id = cylinder.id
                     THEN [prev[i] EXCEPT !.quantity = @ + 1]
                     ELSE prev[i]]
       ELSE Append(prev, CartItem(cylinder, 1))

\* addToCart raises the "Stock Limit" alert
addToCartAlerts(prev, cylinder) ==
    LET e == FindLine(prev, cylinder.id)
    IN e # 0 /\ prev[e].quantity >= cylinder.stockQuantity

KeepsLine(prev, id, change) ==
    [i \in 1..Len(prev) |-> ~(prev[i].id = id /\ prev[i].quantity + change <= 0)]

RECURSIVE SelectKept(_, _, _)
SelectKept(s, keep, i) ==
    IF i > Len(s) THEN <<>>
    ELSE (IF keep[i] THEN <<s[i]>> ELSE <<>>) \o SelectKept(s, keep, i + 1)

\* updateQuantity keeping a line whose quantity would reach 0
updateQuantityNoRemoval(prev, id, change) ==
    [i \in 1..Len(prev) |->
        IF prev[i].id = id
           /\ prev[i].quantity + change > 0
           /\ prev[i].quantity + change <= prev[i].stockQuantity
        THEN [prev[i] EXCEPT !.quantity = @ + change]
        ELSE prev[i]]

\* the updater updateQuantity hands to setCart: map, then filter(Boolean)
updateQuantity(prev, id, change) ==
    LET mapped == [i \in 1..Len(prev) |->
                      IF prev[i].id = id
                         /\ prev[i].quantity + change > 0
                         /\ prev[i].quantity + change <= prev[i].stockQuantity
                      THEN [prev[i] EXCEPT !.quantity = @ + change]
                      ELSE prev[i]]
    IN SelectKept(mapped, KeepsLine(prev, id, change), 1)

\* updateQuantity raises the "Stock Limit" alert
updateQuantityAlerts(prev, id, change) ==
    \E i \in 1..Len(prev) :
        /\ prev[i].id = id
        /\ prev[i].quantity + change > 0
        /\ prev[i].quantity + change > prev[i].stockQuantity

\* orderData built without trimming the address and the instructions
CreateOrderPayloadUntrimmed(c, addr, lat, lng, instr) ==
    [items |-> [i \in 1..Len(c) |-> [cylinderId |-> c[i].id, quantity |-> c[i].quantity]],
     deliveryAddress |-> addr,
     deliveryLatitude |-> parseFloat(lat),
     deliveryLongitude |-> parseFloat(lng),
     specialInstructions |-> IF instr # <<>> THEN <<instr>> ELSE <<>>]

\* orderData of placeOrder; specialInstructions is <<>> when absent
CreateOrderPayload(c, addr, lat, lng, instr) ==
    [items |-> [i \in 1..Len(c) |-> [cylinderId |-> c[i].id, quantity |-> c[i].quantity]],
     deliveryAddress |-> Trim(addr),
     deliveryLatitude |-> parseFloat(lat),
     deliveryLongitude |-> parseFloat(lng),
     specialInstructions |-> IF Trim(instr) # <<>> THEN <<Trim(instr)>> ELSE <<>>]

\* the form is on screen and no dialog covers it
FormShown == phase = "mounted" /\ placedAlerts = 0 /\ ~showMap

\* loadCylinders() up to its await, called at `origin`: without a token it
\* returns at once, otherwise it raises loading and issues the request
LoadsAfterCall(origin) == IF token THEN [loads EXCEPT ![origin] = @ + 1] ELSE loads

\* the mount effect: loadCylinders(); requestLocationPermission()
Mount ==
    /\ phase = "initial"
    /\ phase' = "mounted"
    /\ loads' = LoadsAfterCall("other")
    /\ loading' = (token \/ loading)
    /\ permPc' = "permission"
    /\ capLat' = deliveryLat
    /\ capLng' = deliveryLng
    /\ UNCHANGED mountFix
    /\ notice' = "none"
    /\ UNCHANGED <<resetVars, authVars, mapVars, valVars, textVars, orderVars, cylinders, cart,
                   error, placedAlerts, stockRefreshed>>
    /\ orderData' = NoOrder
    /\ lastInput' = NoInput
    /\ Render

\* the Retry button of the error banner
Retry ==
    /\ FormShown
    /\ error # <<>>
    /\ LoadsInFlight < MaxLoads
    /\ loads' = LoadsAfterCall("other")
    /\ loading' = (token \/ loading)
    /\ notice' = "none"
    /\ UNCHANGED <<resetVars, authVars, mapVars, valVars, textVars, permVars, orderVars, phase,
                   cylinders, cart, error, placedAlerts, stockRefreshed>>
    /\ orderData' = NoOrder
    /\ lastInput' = NoInput
    /\ Render

\* getAllGasCylinders resolves with data
LoadSucceeds(origin, data) ==
    /\ loads[origin] > 0
    /\ loads' = [loads EXCEPT ![origin] = @ - 1]
    /\ cylinders' = FilterAvailable(data)
    /\ error' = <<>>
    /\ loading' = FALSE
    /\ stockRefreshed' = (stockRefreshed \/ origin = "stock")
    /\ notice' = "none"
    /\ UNCHANGED <<resetVars, authVars, mapVars, valVars, textVars, permVars, orderVars, phase,
                   cart, placedAlerts>>
    /\ orderData' = NoOrder
    /\ lastInput' = [kind |-> "load", data |-> data]
    /\ Render

\* getAllGasCylinders rejects with err.message = msg
LoadFails(origin, msg) ==
    /\ loads[origin] > 0
    /\ loads' = [loads EXCEPT ![origin] = @ - 1]
    /\ error' = (IF msg # <<>> THEN msg ELSE StrLoadFailed)
    /\ loading' = FALSE
    /\ notice' = "none"
    /\ UNCHANGED <<resetVars, authVars, mapVars, valVars, textVars, permVars, orderVars, phase,
                   cylinders, cart, placedAlerts, stockRefreshed>>
    /\ orderData' = NoOrder
    /\ lastInput' = [kind |-> "loadFailed", message |-> msg]
    /\ Render

\* the Add button of the product at index i of the list, disabled={loading}
AddToCartPress(i) ==
    /\ FormShown
    /\ ~loading
    /\ i \in 1..Len(cylinders)
    /\ cart' = addToCart(cart, cylinders[i])
    /\ notice' = (IF addToCartAlerts(cart, cylinders[i]) THEN "Stock Limit" ELSE "none")
    /\ UNCHANGED <<resetVars, authVars, mapVars, valVars, textVars, permVars, orderVars, phase,
                   cylinders, loading, error, loads, placedAlerts,
                   stockRefreshed>>
    /\ orderData' = NoOrder
    /\ lastInput' = NoInput
    /\ Render

\* the - and + buttons of the cart line at index i: disabled={loading} and
\* disabled={loading || item.quantity >= item.stockQuantity}
UpdateQuantityPress(i, change) ==
    /\ FormShown
    /\ ~loading
    /\ i \in 1..Len(cart)
    /\ change = 1 => ~(cart[i].quantity >= cart[i].stockQuantity)
    /\ cart' = updateQuantity(cart, cart[i].id, change)
    /\ notice' = (IF updateQuantityAlerts(cart, cart[i].id, change)
                  THEN "Stock Limit" ELSE "none")
    /\ UNCHANGED <<resetVars, authVars, mapVars, valVars, textVars, permVars, orderVars, phase,
                   cylinders, loading, error, loads, placedAlerts,
                   stockRefreshed>>
    /\ orderData' = NoOrder
    /\ lastInput' = NoInput
    /\ Render

\* onChangeText of the four text inputs, editable={!loading}
EditLat(t) ==
    /\ FormShown
    /\ ~loading
    /\ deliveryLat' = t
    /\ notice' = "none"
    /\ UNCHANGED <<resetVars, authVars, mapVars, valVars, permVars, orderVars, phase, cylinders,
                   cart, deliveryAddress, deliveryLng, instructions, loading, error,
                   loads, placedAlerts, stockRefreshed>>
    /\ orderData' = NoOrder
    /\ lastInput' = NoInput
    /\ Render

EditLng(t) ==
    /\ FormShown
    /\ ~loading
    /\ deliveryLng' = t
    /\ notice' = "none"
    /\ UNCHANGED <<resetVars, authVars, mapVars, valVars, permVars, orderVars, phase, cylinders,
                   cart, deliveryAddress, deliveryLat, instructions, loading, error,
                   loads, placedAlerts, stockRefreshed>>
    /\ orderData' = NoOrder
    /\ lastInput' = NoInput
    /\ Render

EditAddress(t) ==
    /\ FormShown
    /\ ~loading
    /\ deliveryAddress' = t
    /\ notice' = "none"
    /\ UNCHANGED <<resetVars, authVars, mapVars, valVars, permVars, orderVars, phase, cylinders,
                   cart, deliveryLat, deliveryLng, instructions, loading, error,
                   loads, placedAlerts, stockRefreshed>>
    /\ orderData' = NoOrder
    /\ lastInput' = [kind |-> "editAddress"]
    /\ Render

EditInstructions(t) ==
    /\ FormShown
    /\ ~loading
    /\ instructions' = t
    /\ notice' = "none"
    /\ UNCHANGED <<resetVars, authVars, mapVars, valVars, permVars, orderVars, phase, cylinders,
                   cart, deliveryAddress, deliveryLat, deliveryLng, loading, error,
                   loads, placedAlerts, stockRefreshed>>
    /\ orderData' = NoOrder
    /\ lastInput' = NoInput
    /\ Render

\* which return of placeOrder is taken: the alert it raises, "none" when it submits
PlaceOrderRejection ==
    IF ~token THEN "Error"
    ELSE IF ~canPlaceOrder(cart, deliveryAddress, deliveryLat, deliveryLng, loading)
    THEN "Incomplete Order"
    ELSE IF ~validateCoordinates(parseFloat(deliveryLat), parseFloat(deliveryLng))
    THEN "Invalid Coordinates"
    ELSE "none"

\* the Place Order button, pressable unless the last render disabled it
PlaceOrderPress ==
    /\ FormShown
    /\ ~orderBtnDisabled
    /\ pendingOrders < MaxPending
    /\ notice' = PlaceOrderRejection
    /\ IF PlaceOrderRejection # "none"
       THEN /\ orderData' = NoOrder
            /\ UNCHANGED <<loading, pendingOrders>>
       ELSE /\ loading' = TRUE
            /\ pendingOrders' = pendingOrders + 1
            /\ orderData' = CreateOrderPayload(cart, deliveryAddress, deliveryLat,
                                               deliveryLng, instructions)
    /\ UNCHANGED <<resetVars, authVars, mapVars, valVars, textVars, permVars, phase, cylinders,
                   cart, error, loads, placedAlerts, stockRefreshed>>
    /\ lastInput' = NoInput
    /\ Render

\* an outstanding createOrder resolves: the "Order Placed!" dialog, then finally
OrderSucceeds ==
    /\ pendingOrders > 0
    /\ pendingOrders' = pendingOrders - 1
    /\ placedAlerts' = placedAlerts + 1
    /\ notice' = "Order Placed!"
    /\ loading' = FALSE
    /\ UNCHANGED <<resetVars, authVars, mapVars, valVars, textVars, permVars, phase, cylinders, cart, error, loads, stockRefreshed>>
    /\ orderData' = NoOrder
    /\ lastInput' = NoInput
    /\ Render

\* an outstanding createOrder rejects with err.message = msg: catch, then finally
OrderFails(msg) ==
    /\ pendingOrders > 0
    /\ Includes(msg, StrStock) => LoadsInFlight < MaxLoads
    /\ pendingOrders' = pendingOrders - 1
    /\ notice' = "Order Failed"
    /\ loads' = (IF Includes(msg, StrStock) THEN LoadsAfterCall("stock") ELSE loads)
    /\ loading' = FALSE
    /\ UNCHANGED <<resetVars, authVars, mapVars, valVars, textVars, permVars, phase, cylinders, cart, error, placedAlerts, stockRefreshed>>
    /\ orderData' = NoOrder
    /\ lastInput' = NoInput
    /\ Render

\* the "View Orders" choice of the dialog: router.push('/orders') puts the orders
\* screen on top of this one, which stays mounted with its state for the return
ViewOrders ==
    /\ placedAlerts > 0
    /\ placedAlerts' = placedAlerts - 1
    /\ notice' = "none"
    /\ UNCHANGED <<resetVars, authVars, mapVars, valVars, textVars, permVars, orderVars, phase,
                   cylinders, cart, loading, error, loads, stockRefreshed>>
    /\ orderData' = NoOrder
    /\ lastInput' = NoInput
    /\ Render

\* the "New Order" choice of the dialog
NewOrder ==
    /\ placedAlerts > 0
    /\ LoadsInFlight < MaxLoads
    /\ placedAlerts' = placedAlerts - 1
    /\ cart' = <<>>
    /\ instructions' = <<>>
    /\ loads' = LoadsAfterCall("other")
    /\ loading' = (token \/ loading)
    /\ notice' = "none"
    /\ UNCHANGED <<resetVars, authVars, mapVars, valVars, permVars, orderVars, phase, cylinders,
                   deliveryAddress, deliveryLat, deliveryLng, error,
                   stockRefreshed>>
    /\ orderData' = NoOrder
    /\ lastInput' = NoInput
    /\ Render

---------------------------------------------------------------------------
(* Specification of the order flow: the stored location of the user is a  *)
(* valid coordinate and the location requests made at mount stay pending. *)

InitOrder ==
    /\ token \in BOOLEAN
    /\ userLat = Num(10000)
    /\ userLng = Num(325000)
    /\ userAddress = StrKlaPadded
    /\ catalogue = <<"a">>
    /\ InitScreen
    /\ InitNoValidate

NextOrder ==
    \/ Mount
    \/ Retry
    \/ \E o \in LoadOrigins, d \in Responses : LoadSucceeds(o, d)
    \/ \E o \in LoadOrigins, m \in LoadErrors : LoadFails(o, m)
    \/ \E i \in 1..Len(catalogue) : AddToCartPress(i)
    \/ \E i \in 1..Len(catalogue), ch \in {-1, 1} : UpdateQuantityPress(i, ch)
    \/ \E t \in OrderLatTexts : EditLat(t)
    \/ \E t \in AddressTexts : EditAddress(t)
    \/ \E t \in InstructionTexts : EditInstructions(t)
    \/ PlaceOrderPress
    \/ OrderSucceeds
    \/ \E m \in OrderErrors : OrderFails(m)
    \/ ViewOrders
    \/ NewOrder

Spec == InitOrder /\ [][NextOrder]_vars

---------------------------------------------------------------------------
(* Properties of the order flow *)

\* the three conditions of the submission gate that do not concern a busy flag
GateInputsHold ==
    /\ Len(cart) > 0
    /\ Trim(deliveryAddress) # <<>>
    /\ validateCoordinates(parseFloat(deliveryLat), parseFloat(deliveryLng))

\* the stock the product list shows for id, 0 when the list does not offer it
ListedStock(id) ==
    IF \E i \in 1..Len(cylinders) : cylinders[i].id = id
    THEN cylinders[CHOOSE i \in 1..Len(cylinders) : cylinders[i].id = id].stockQuantity
    ELSE 0

\* C1: at most one createOrder call is outstanding at any time, across every
\* interleaving of submit presses, inventory loads and their completions.
C1_AtMostOneSubmission == pendingOrders <= 1

C4_CartWithinStock ==
    \A i \in 1..Len(cart) :
        1 <= cart[i].quantity /\ cart[i].quantity <= cart[i].stockQuantity

\* C5: once the success acknowledgment is shown, the cart is empty.
C5_CartClearedOnSuccess == placedAlerts > 0 => cart = <<>>

\* C9: once the inventory refresh that a stock failure started has completed,
\* no submission carries a line whose quantity exceeds the stock the refreshed
\* list shows for that cylinder.
C9_NoStaleResubmission ==
    [][(stockRefreshed /\ pendingOrders' > pendingOrders) =>
          \A i \in 1..Len(orderData'.items) :
              orderData'.items[i].quantity
                  <= ListedStock(orderData'.items[i].cylinderId)]_vars

---------------------------------------------------------------------------
(* Delivery location: permission, GPS fix, map picker, reverse geocoding *)

shopVars == <<orderVars, cylinders, cart, loading, error, loads, placedAlerts,
              stockRefreshed>>

\* the map picker is on screen and no dialog covers it
MapShown == phase = "mounted" /\ placedAlerts = 0 /\ showMap

\* positions the device may report, a map press may carry (has = FALSE: the
\* event has no coordinate)
FixCoords == {Point(Num(3000), Num(326000)), Point(NaN, Num(326000))}
TapEvents ==
    {[has |-> TRUE, latitude |-> Num(3500), longitude |-> Num(325800)],
     [has |-> TRUE, latitude |-> Num(950000), longitude |-> Num(330000)],
     [has |-> FALSE, latitude |-> Undefined, longitude |-> Undefined]}

\* updateMapRegion without its validation
updateMapRegionUnchecked(latitude, longitude) ==
    [region |-> Region(latitude, longitude), selected |-> Point(latitude, longitude)]

\* what updateMapRegion leaves in mapRegion and in selectedLocation
updateMapRegion(latitude, longitude) ==
    IF validateCoordinates(latitude, longitude)
    THEN [region |-> Region(latitude, longitude), selected |-> Point(latitude, longitude)]
    ELSE [region |-> Region(Num(DefaultLat), Num(DefaultLng)),
          selected |-> Point(Num(DefaultLat), Num(DefaultLng))]

\* toFixed(4) giving the shortest decimal form instead of four decimals
ToFixedShortest(x) == NumToString(x)

\* Number.prototype.toFixed(4) of a finite number
ToFixed4(x) ==
    LET a == IF x.v < 0 THEN -x.v ELSE x.v
    IN (IF x.v < 0 THEN <<"-">> ELSE <<>>)
       \o NatToStr(a \div Scale) \o <<".">> \o FracDigits(a % Scale)

\* `Lat: ${latitude.toFixed(4)}, Lng: ${longitude.toFixed(4)}`
FallbackAddress(latitude, longitude) ==
    <<"L", "a", "t", ":", " ">> \o ToFixed4(latitude)
    \o <<",", " ", "L", "n", "g", ":", " ">> \o ToFixed4(longitude)

RECURSIVE JoinParts(_)
JoinParts(parts) ==
    IF parts = <<>> THEN <<>>
    ELSE IF Len(parts) = 1 THEN parts[1]
    ELSE parts[1] \o <<",", " ">> \o JoinParts(Tail(parts))

NonEmpty(part) == part # <<>>

\* what reverseGeocodeAsync may do: fail, or return a list of results, each the
\* parts name, street, city, region, postalCode, country (<<>>: missing)
StrPlot == <<"P", "l", "o", "t">>
GeocodeOutcomes ==
    {[ok |-> FALSE, results |-> <<>>],
     [ok |-> TRUE, results |-> <<>>],
     [ok |-> TRUE, results |-> <<(<<(<<>>), (<<>>), (<<>>), (<<>>), (<<>>), (<<>>)>>)>>],
     [ok |-> TRUE, results |-> <<(<<StrPlot, (<<>>), StrKla, (<<>>), (<<>>), (<<>>)>>)>>]}

\* the address handleReverseGeocode sets for an outcome of the lookup
ReverseGeocodeAddress(outcome, latitude, longitude) ==
    IF outcome.ok /\ Len(outcome.results) > 0
    THEN LET address == Trim(JoinParts(SelectSeq(outcome.results[1], NonEmpty)))
         IN IF address # <<>> THEN address ELSE FallbackAddress(latitude, longitude)
    ELSE FallbackAddress(latitude, longitude)

\* the permission request settling, with the position fetched whatever the answer
PermissionSettlesAlwaysFetches(outcome) ==
    /\ permPc = "permission"
    /\ locationPermission' = (outcome = "granted")
    /\ permPc' = "position"
    /\ notice' = "none"
    /\ UNCHANGED <<resetVars, authVars, valVars, textVars, shopVars, phase, capLat, capLng,
                   mountFix, showMap, mapRegion, selectedLocation, mapError, mapReady,
                   locating, geocodes>>
    /\ orderData' = NoOrder
    /\ lastInput' = [kind |-> "permission", outcome |-> outcome]
    /\ Render

\* Location.requestForegroundPermissionsAsync settles: granted, denied, or throws
PermissionSettles(outcome) ==
    /\ permPc = "permission"
    /\ locationPermission' = (outcome = "granted")
    /\ permPc' = (IF outcome = "granted" THEN "position" ELSE "done")
    /\ notice' = "none"
    /\ UNCHANGED <<resetVars, authVars, valVars, textVars, shopVars, phase, capLat, capLng,
                   mountFix, showMap, mapRegion, selectedLocation, mapError, mapReady,
                   locating, geocodes>>
    /\ orderData' = NoOrder
    /\ lastInput' = [kind |-> "permission", outcome |-> outcome]
    /\ Render

\* if (!deliveryLat || !deliveryLng), over the values the closure captured
FixSeedsFields == capLat = <<>> \/ capLng = <<>>

\* getCurrentPositionAsync of requestLocationPermission resolves with a position
FixResolves(fix) ==
    /\ permPc = "position"
    /\ permPc' = "done"
    /\ mountFix' = [has |-> TRUE, latitude |-> fix.latitude, longitude |-> fix.longitude]
    /\ IF validateCoordinates(fix.latitude, fix.longitude)
       THEN /\ mapRegion' = updateMapRegion(fix.latitude, fix.longitude).region
            /\ selectedLocation' = updateMapRegion(fix.latitude, fix.longitude).selected
            /\ IF FixSeedsFields
               THEN /\ deliveryLat' = NumToString(fix.latitude)
                    /\ deliveryLng' = NumToString(fix.longitude)
               ELSE UNCHANGED <<deliveryLat, deliveryLng>>
       ELSE UNCHANGED <<mapRegion, selectedLocation, deliveryLat, deliveryLng>>
    /\ notice' = "none"
    /\ UNCHANGED <<resetVars, authVars, valVars, shopVars, phase, capLat, capLng, deliveryAddress,
                   instructions, showMap, locationPermission, mapError, mapReady,
                   locating, geocodes>>
    /\ orderData' = NoOrder
    /\ lastInput' = [kind |-> "fix", latitude |-> fix.latitude, longitude |-> fix.longitude]
    /\ Render

\* getCurrentPositionAsync of requestLocationPermission rejects: logged
FixRejects ==
    /\ permPc = "position"
    /\ permPc' = "done"
    /\ notice' = "none"
    /\ UNCHANGED <<resetVars, authVars, valVars, textVars, shopVars, mapVars, phase, capLat, capLng,
                   mountFix>>
    /\ orderData' = NoOrder
    /\ lastInput' = [kind |-> "fixRejected"]
    /\ Render

\* the button showing the picker without resetting mapReady and mapError
OpenMapKeepsState ==
    /\ FormShown
    /\ showMap' = TRUE
    /\ notice' = "none"
    /\ UNCHANGED <<resetVars, authVars, valVars, textVars, shopVars, permVars, phase, mapRegion,
                   selectedLocation, locationPermission, locating, geocodes, mapReady,
                   mapError>>
    /\ orderData' = NoOrder
    /\ lastInput' = NoInput
    /\ Render

\* the "Select Location on Map" button
OpenMap ==
    /\ FormShown
    /\ showMap' = TRUE
    /\ mapReady' = FALSE
    /\ mapError' = FALSE
    /\ notice' = "none"
    /\ UNCHANGED <<resetVars, authVars, valVars, textVars, shopVars, permVars, phase, mapRegion,
                   selectedLocation, locationPermission, locating, geocodes>>
    /\ orderData' = NoOrder
    /\ lastInput' = NoInput
    /\ Render

\* the close button of the map header
CloseMap ==
    /\ MapShown
    /\ showMap' = FALSE
    /\ notice' = "none"
    /\ UNCHANGED <<resetVars, authVars, valVars, textVars, shopVars, permVars, phase, mapRegion,
                   selectedLocation, locationPermission, mapError, mapReady, locating,
                   geocodes>>
    /\ orderData' = NoOrder
    /\ lastInput' = NoInput
    /\ Render

\* onMapReady of a MapView that stays rendered in the error state
MapReadyInErrorState ==
    /\ MapShown
    /\ ~mapReady
    /\ mapReady' = TRUE
    /\ mapError' = FALSE
    /\ notice' = "none"
    /\ UNCHANGED <<resetVars, authVars, valVars, textVars, shopVars, permVars, phase, showMap,
                   mapRegion, selectedLocation, locationPermission, locating, geocodes>>
    /\ orderData' = NoOrder
    /\ lastInput' = NoInput
    /\ Render

\* onMapReady of the MapView, rendered unless mapError
MapReady ==
    /\ MapShown
    /\ ~mapError
    /\ ~mapReady
    /\ mapReady' = TRUE
    /\ mapError' = FALSE
    /\ notice' = "none"
    /\ UNCHANGED <<resetVars, authVars, valVars, textVars, shopVars, permVars, phase, showMap,
                   mapRegion, selectedLocation, locationPermission, locating, geocodes>>
    /\ orderData' = NoOrder
    /\ lastInput' = NoInput
    /\ Render

\* onMapPress emptying the cart when it accepts the press
MapPressClearsCart(ev) ==
    /\ MapShown
    /\ ~mapError
    /\ IF ~ev.has \/ ~validateCoordinates(ev.latitude, ev.longitude)
       THEN /\ notice' = "Invalid Selection"
            /\ UNCHANGED <<selectedLocation, deliveryLat, deliveryLng, geocodes, cart>>
       ELSE /\ Len(geocodes) < MaxGeocodes
            /\ selectedLocation' = Point(ev.latitude, ev.longitude)
            /\ deliveryLat' = NumToString(ev.latitude)
            /\ deliveryLng' = NumToString(ev.longitude)
            /\ geocodes' = Append(geocodes, Point(ev.latitude, ev.longitude))
            /\ cart' = <<>>
            /\ notice' = "none"
    /\ UNCHANGED <<resetVars, authVars, valVars, permVars, phase, deliveryAddress,
                   instructions, showMap, mapRegion, locationPermission, mapError,
                   mapReady, locating, orderVars, cylinders, loading, error, loads,
                   placedAlerts, stockRefreshed>>
    /\ orderData' = NoOrder
    /\ lastInput' = [kind |-> "tap", has |-> ev.has, latitude |-> ev.latitude,
                     longitude |-> ev.longitude]
    /\ Render

\* onMapPress up to its await
MapPress(ev) ==
    /\ MapShown
    /\ ~mapError
    /\ IF ~ev.has \/ ~validateCoordinates(ev.latitude, ev.longitude)
       THEN /\ notice' = "Invalid Selection"
            /\ UNCHANGED <<selectedLocation, deliveryLat, deliveryLng, geocodes>>
       ELSE /\ Len(geocodes) < MaxGeocodes
            /\ selectedLocation' = Point(ev.latitude, ev.longitude)
            /\ deliveryLat' = NumToString(ev.latitude)
            /\ deliveryLng' = NumToString(ev.longitude)
            /\ geocodes' = Append(geocodes, Point(ev.latitude, ev.longitude))
            /\ notice' = "none"
    /\ UNCHANGED <<resetVars, authVars, valVars, shopVars, permVars, phase, deliveryAddress,
                   instructions, showMap, mapRegion, locationPermission, mapError,
                   mapReady, locating>>
    /\ orderData' = NoOrder
    /\ lastInput' = [kind |-> "tap", has |-> ev.has, latitude |-> ev.latitude,
                     longitude |-> ev.longitude]
    /\ Render

\* the "Confirm Location" button
ConfirmLocation ==
    /\ MapShown
    /\ showMap' = FALSE
    /\ notice' = "Location Selected"
    /\ UNCHANGED <<resetVars, authVars, valVars, textVars, shopVars, permVars, phase, mapRegion,
                   selectedLocation, locationPermission, mapError, mapReady, locating,
                   geocodes>>
    /\ orderData' = NoOrder
    /\ lastInput' = NoInput
    /\ Render

\* the current-location button of the map header: getCurrentLocation up to its await
CurrentLocationPress ==
    /\ MapShown
    /\ IF ~locationPermission
       THEN /\ notice' = "Permission Required"
            /\ UNCHANGED locating
       ELSE /\ locating < MaxLocating
            /\ locating' = locating + 1
            /\ notice' = "none"
    /\ UNCHANGED <<resetVars, authVars, valVars, textVars, shopVars, permVars, phase, showMap,
                   mapRegion, selectedLocation, locationPermission, mapError, mapReady,
                   geocodes>>
    /\ orderData' = NoOrder
    /\ lastInput' = [kind |-> "currentLocation"]
    /\ Render

\* getCurrentPositionAsync of getCurrentLocation resolves with a position
LocateResolves(fix) ==
    /\ locating > 0
    /\ locating' = locating - 1
    /\ IF validateCoordinates(fix.latitude, fix.longitude)
       THEN /\ Len(geocodes) < MaxGeocodes
            /\ mapRegion' = updateMapRegion(fix.latitude, fix.longitude).region
            /\ selectedLocation' = updateMapRegion(fix.latitude, fix.longitude).selected
            /\ deliveryLat' = NumToString(fix.latitude)
            /\ deliveryLng' = NumToString(fix.longitude)
            /\ geocodes' = Append(geocodes, Point(fix.latitude, fix.longitude))
            /\ notice' = "none"
       ELSE /\ notice' = "Error"
            /\ UNCHANGED <<mapRegion, selectedLocation, deliveryLat, deliveryLng,
                           geocodes>>
    /\ UNCHANGED <<resetVars, authVars, valVars, shopVars, permVars, phase, deliveryAddress,
                   instructions, showMap, locationPermission, mapError, mapReady>>
    /\ orderData' = NoOrder
    /\ lastInput' = [kind |-> "locate", latitude |-> fix.latitude, longitude |-> fix.longitude]
    /\ Render

\* getCurrentPositionAsync of getCurrentLocation rejects
LocateRejects ==
    /\ locating > 0
    /\ locating' = locating - 1
    /\ notice' = "Error"
    /\ UNCHANGED <<resetVars, authVars, valVars, textVars, shopVars, permVars, phase, showMap,
                   mapRegion, selectedLocation, locationPermission, mapError, mapReady,
                   geocodes>>
    /\ orderData' = NoOrder
    /\ lastInput' = [kind |-> "locateRejected"]
    /\ Render

\* reverseGeocodeAsync call number i settles: the rest of handleReverseGeocode
GeocodeSettles(i, outcome) ==
    /\ i \in 1..Len(geocodes)
    /\ geocodes' = SubSeq(geocodes, 1, i - 1) \o SubSeq(geocodes, i + 1, Len(geocodes))
    /\ deliveryAddress' =
           ReverseGeocodeAddress(outcome, geocodes[i].latitude, geocodes[i].longitude)
    /\ notice' = "none"
    /\ UNCHANGED <<resetVars, authVars, valVars, shopVars, permVars, phase, deliveryLat,
                   deliveryLng, instructions, showMap, mapRegion, selectedLocation,
                   locationPermission, mapError, mapReady, locating>>
    /\ orderData' = NoOrder
    /\ lastInput' = [kind |-> "geocode", outcome |-> outcome,
                     latitude |-> geocodes[i].latitude,
                     longitude |-> geocodes[i].longitude]
    /\ Render

---------------------------------------------------------------------------
(* Specification of the location flow: the stored coordinates of the user  *)
(* vary, the inventory is empty.                                           *)

SeedLats == {Undefined, Num(0), Num(950000)}
SeedLngs == {Undefined, Num(325000)}

InitLocation ==
    /\ token = TRUE
    /\ userLat \in SeedLats
    /\ userLng \in SeedLngs
    /\ userAddress = <<>>
    /\ catalogue = <<>>
    /\ InitScreen
    /\ InitNoValidate

NextLocation ==
    \/ Mount
    \/ \E d \in Responses : LoadSucceeds("other", d)
    \/ \E o \in {"granted", "denied", "throws"} : PermissionSettles(o)
    \/ \E f \in FixCoords : FixResolves(f)
    \/ FixRejects
    \/ \E t \in LatTexts : EditLat(t)
    \/ \E t \in LngTexts : EditLng(t)
    \/ OpenMap
    \/ CloseMap
    \/ MapReady
    \/ \E ev \in TapEvents : MapPress(ev)
    \/ ConfirmLocation
    \/ CurrentLocationPress
    \/ \E f \in FixCoords : LocateResolves(f)
    \/ LocateRejects
    \/ \E i \in 1..MaxGeocodes, o \in GeocodeOutcomes : GeocodeSettles(i, o)

SpecLocation == InitLocation /\ [][NextLocation]_vars

---------------------------------------------------------------------------
(* Properties of the location flow *)

\* the step in which the position request made at mount settles
MountFixSettles == permPc = "position" /\ permPc' = "done"

\* the step in which that request resolves with a position the validator accepts
ValidMountFixArrives ==
    /\ MountFixSettles
    /\ mountFix'.has
    /\ validateCoordinates(mountFix'.latitude, mountFix'.longitude)

\* C2: when the GPS fix requested at mount resolves, each manual coordinate
\* text field that is non-empty at that moment keeps its value.
C2_FixKeepsNonEmptyFields ==
    [][MountFixSettles =>
          /\ (deliveryLat # <<>> => deliveryLat' = deliveryLat)
          /\ (deliveryLng # <<>> => deliveryLng' = deliveryLng)]_vars

\* C7: selectedLocation and the centre of mapRegion always satisfy
\* validateCoordinates, from the seed at mount onwards.
C7_SelectedLocationValid ==
    /\ validateCoordinates(selectedLocation.latitude, selectedLocation.longitude)
    /\ validateCoordinates(mapRegion.latitude, mapRegion.longitude)

IsValidLatitude(x) == validateCoordinates(x, Num(0))
IsValidLongitude(x) == validateCoordinates(Num(0), x)

\* C8: at mount every valid stored coordinate of the user, zero included, seeds
\* its text field, selectedLocation and mapRegion.
C8_ZeroSeedsLikeAnyCoordinate ==
    phase = "initial" =>
        /\ IsValidLatitude(userLat) =>
              /\ deliveryLat = NumToString(userLat)
              /\ selectedLocation.latitude = userLat
              /\ mapRegion.latitude = userLat
        /\ IsValidLongitude(userLng) =>
              /\ deliveryLng = NumToString(userLng)
              /\ selectedLocation.longitude = userLng
              /\ mapRegion.longitude = userLng

\* C10: a valid GPS fix obtained at mount moves mapRegion and selectedLocation
\* to the fix; it fills both text fields with the fix when they are empty and
\* leaves them alone when they hold text.
C10_FixSeedsOnlyEmptyFields ==
    [][ValidMountFixArrives =>
          /\ mapRegion' = Region(mountFix'.latitude, mountFix'.longitude)
          /\ selectedLocation' = Point(mountFix'.latitude, mountFix'.longitude)
          /\ (deliveryLat = <<>> /\ deliveryLng = <<>>) =>
                 /\ deliveryLat' = NumToString(mountFix'.latitude)
                 /\ deliveryLng' = NumToString(mountFix'.longitude)
          /\ (deliveryLat # <<>> /\ deliveryLng # <<>>) =>
                 UNCHANGED <<deliveryLat, deliveryLng>>]_vars

---------------------------------------------------------------------------
(* validateCoordinates as a function: inputs are drawn, then it is applied *)

CoordinateInputs ==
    {NaN, PosInf, NegInf, Undefined}
    \cup {Num(v) : v \in {-1800001, -1800000, -900001, -900000, 0, 3476,
                          900000, 900001, 1800000, 1800001}}

InitValidate ==
    /\ token = TRUE
    /\ userLat = Undefined
    /\ userLng = Undefined
    /\ userAddress = <<>>
    /\ catalogue = <<>>
    /\ InitScreen
    /\ vLat \in CoordinateInputs
    /\ vLng \in CoordinateInputs
    /\ vResult = "unset"

Validate ==
    /\ vResult = "unset"
    /\ vResult' = (IF validateCoordinates(vLat, vLng) THEN "true" ELSE "false")
    /\ UNCHANGED <<resetVars, authVars, mapVars, permVars, textVars, shopVars, orderData, phase,
                   notice, orderBtnDisabled, vLat, vLng, lastInput, timerVars>>

\* updateMapRegion(vLat, vLng)
CallUpdateMapRegion ==
    /\ lastInput = NoInput
    /\ mapRegion' = updateMapRegion(vLat, vLng).region
    /\ selectedLocation' = updateMapRegion(vLat, vLng).selected
    /\ notice' = "none"
    /\ UNCHANGED <<resetVars, authVars, valVars, textVars, shopVars, permVars, phase, showMap,
                   locationPermission, mapError, mapReady, locating, geocodes>>
    /\ orderData' = NoOrder
    /\ lastInput' = [kind |-> "updateMapRegion"]
    /\ Render

NextValidate ==
    \/ Validate
    \/ CallUpdateMapRegion

SpecValidate == InitValidate /\ [][NextValidate]_vars

IsFinite(x) == x.k = "num"

\* C6: validateCoordinates(lat, lng) is true if and only if both values are
\* finite numbers with -90 <= lat <= 90 and -180 <= lng <= 180.
C6_ValidIffFiniteInRange ==
    vResult # "unset" =>
        (vResult = "true" <=>
            /\ IsFinite(vLat)
            /\ IsFinite(vLng)
            /\ -90 * Scale <= vLat.v /\ vLat.v <= 90 * Scale
            /\ -180 * Scale <= vLng.v /\ vLng.v <= 180 * Scale)

\* C6 witness: (0, 0) was validated and accepted
C6_Witness == vResult = "true" /\ vLat = Num(0) /\ vLng = Num(0)

---------------------------------------------------------------------------
(* The cart updaters as functions: the product list is set to any filtered  *)
(* inventory response, and addToCart and updateQuantity are applied to the  *)
(* cart with any argument.                                                  *)

CartCatalogue == <<"a", "b">>

InitCart ==
    /\ token = TRUE
    /\ userLat = Undefined
    /\ userLng = Undefined
    /\ userAddress = <<>>
    /\ catalogue = CartCatalogue
    /\ InitScreen
    /\ InitNoValidate

\* setCylinders(data.filter(c => c.isAvailable && c.stockQuantity > 0))
SetCylinders(data) ==
    /\ cylinders' = FilterAvailable(data)
    /\ notice' = "none"
    /\ UNCHANGED <<resetVars, authVars, mapVars, valVars, textVars, permVars, orderVars, phase,
                   cart, loading, error, loads, placedAlerts, stockRefreshed>>
    /\ orderData' = NoOrder
    /\ lastInput' = NoInput
    /\ Render

\* addToCart(cylinder) for the product at index i of the list
CallAddToCart(i) ==
    /\ i \in 1..Len(cylinders)
    /\ cart' = addToCart(cart, cylinders[i])
    /\ notice' = (IF addToCartAlerts(cart, cylinders[i]) THEN "Stock Limit" ELSE "none")
    /\ UNCHANGED <<resetVars, authVars, mapVars, valVars, textVars, permVars, orderVars, phase,
                   cylinders, loading, error, loads, placedAlerts, stockRefreshed>>
    /\ orderData' = NoOrder
    /\ lastInput' = [kind |-> "addToCart", cylinder |-> cylinders[i], before |-> cart]
    /\ Render

\* updateQuantity(id, change)
CallUpdateQuantity(id, change) ==
    /\ cart' = updateQuantity(cart, id, change)
    /\ notice' = (IF updateQuantityAlerts(cart, id, change) THEN "Stock Limit" ELSE "none")
    /\ UNCHANGED <<resetVars, authVars, mapVars, valVars, textVars, permVars, orderVars, phase,
                   cylinders, loading, error, loads, placedAlerts, stockRefreshed>>
    /\ orderData' = NoOrder
    /\ lastInput' = [kind |-> "updateQuantity", id |-> id, change |-> change,
                     before |-> cart]
    /\ Render

NextCart ==
    \/ \E d \in Responses : SetCylinders(d)
    \/ \E i \in 1..Len(CartCatalogue) : CallAddToCart(i)
    \/ \E i \in 1..Len(CartCatalogue), ch \in {-1, 1} :
           CallUpdateQuantity(CartCatalogue[i], ch)

SpecCart == InitCart /\ [][NextCart]_vars

\* the indices of the lines of a cart that hold product id
LinesOf(c, id) == {i \in 1..Len(c) : c[i].id = id}

\* a cart without its line i
WithoutLine(c, i) == SubSeq(c, 1, i - 1) \o SubSeq(c, i + 1, Len(c))

\* C11: addToCart of a cylinder that has a line in the cart adds exactly 1 to
\* that line's quantity and changes nothing else, unless the quantity would then
\* exceed the stockQuantity of the cylinder added: then the cart is unchanged
\* and the "Stock Limit" notice is raised. addToCart of a cylinder without a
\* line appends one line for it with quantity 1.
C11_AddToCartRule ==
    lastInput.kind = "addToCart" =>
        LET prev == lastInput.before
            c == lastInput.cylinder
        IN IF LinesOf(prev, c.id) = {}
           THEN /\ cart = Append(prev, [id |-> c.id, stockQuantity |-> c.stockQuantity,
                                        isAvailable |-> c.isAvailable, quantity |-> 1])
                /\ notice = "none"
           ELSE \A i \in LinesOf(prev, c.id) :
                    IF prev[i].quantity + 1 > c.stockQuantity
                    THEN cart = prev /\ notice = "Stock Limit"
                    ELSE /\ Len(cart) = Len(prev)
                         /\ cart[i] = [prev[i] EXCEPT !.quantity = prev[i].quantity + 1]
                         /\ \A j \in 1..Len(prev) : j # i => cart[j] = prev[j]
                         /\ notice = "none"

\* C11 witness: a cylinder was added whose line already held its whole stock,
\* with another line in the cart; the add was rejected
C11_Witness ==
    /\ lastInput.kind = "addToCart"
    /\ Len(lastInput.before) = 2
    /\ \E i \in LinesOf(lastInput.before, lastInput.cylinder.id) :
           lastInput.before[i].quantity = lastInput.cylinder.stockQuantity
    /\ notice = "Stock Limit"

\* C12: updateQuantity(id, -1) on a line of quantity 1 removes that line and
\* leaves every other line as it was; updateQuantity(id, +1) on a line whose
\* quantity equals its stockQuantity leaves the cart unchanged and raises the
\* "Stock Limit" notice.
C12_UpdateQuantityRule ==
    lastInput.kind = "updateQuantity" =>
        LET prev == lastInput.before
        IN \A i \in LinesOf(prev, lastInput.id) :
               /\ (lastInput.change = -1 /\ prev[i].quantity = 1) =>
                      cart = WithoutLine(prev, i)
               /\ (lastInput.change = 1 /\ prev[i].quantity = prev[i].stockQuantity) =>
                      (cart = prev /\ notice = "Stock Limit")

\* C12 witness: the first of two lines had quantity 1 and was decremented
C12_Witness ==
    /\ lastInput.kind = "updateQuantity"
    /\ lastInput.change = -1
    /\ Len(lastInput.before) = 2
    /\ lastInput.before[1].id = lastInput.id
    /\ lastInput.before[1].quantity = 1
    /\ cart = <<lastInput.before[2]>>

---------------------------------------------------------------------------
(* Properties of the location flow: map presses, position fetches, lookups *)

\* both values are finite numbers, the latitude within [-90, 90] and the
\* longitude within [-180, 180]
FiniteInRange(lat, lng) ==
    /\ lat.k = "num"
    /\ lng.k = "num"
    /\ -90 * Scale <= lat.v /\ lat.v <= 90 * Scale
    /\ -180 * Scale <= lng.v /\ lng.v <= 180 * Scale

\* the step consumed a map press without a coordinate or with one out of range
InvalidTap(in) ==
    in.kind = "tap" /\ (~in.has \/ ~FiniteInRange(in.latitude, in.longitude))

\* the step consumed a device position out of range
InvalidPosition(in) ==
    in.kind \in {"fix", "locate"} /\ ~FiniteInRange(in.latitude, in.longitude)

\* C13: a map press without a coordinate or with an invalid one raises the
\* "Invalid Selection" warning and changes none of selectedLocation, mapRegion,
\* deliveryLat, deliveryLng, deliveryAddress, nor issues a lookup; a device
\* position the validator rejects changes none of them either.
C13_RejectedCoordinateChangesNothing ==
    [][(InvalidTap(lastInput') \/ InvalidPosition(lastInput')) =>
          /\ UNCHANGED <<selectedLocation, mapRegion, deliveryLat, deliveryLng,
                         deliveryAddress, geocodes>>
          /\ InvalidTap(lastInput') => notice' = "Invalid Selection"]_vars

\* C13 witness: the map was pressed at latitude 95 after a valid press had moved
\* the selection, and the warning is up
C13_Witness ==
    /\ InvalidTap(lastInput)
    /\ lastInput.has
    /\ notice = "Invalid Selection"
    /\ selectedLocation = Point(Num(3500), Num(325800))

\* C14: updateMapRegion with coordinates that fail validation sets
\* selectedLocation to (0.3476, 32.5825) and mapRegion to that centre with the
\* deltas 0.0922 and 0.0421, never to the coordinates it was given.
C14_InvalidRegionResetsToDefault ==
    (lastInput.kind = "updateMapRegion" /\ ~FiniteInRange(vLat, vLng)) =>
        /\ selectedLocation = [latitude |-> Num(3476), longitude |-> Num(325825)]
        /\ mapRegion = [latitude |-> Num(3476), longitude |-> Num(325825),
                        latitudeDelta |-> 922, longitudeDelta |-> 421]

\* C14 witness: updateMapRegion was given a latitude just above 90
C14_Witness ==
    /\ lastInput.kind = "updateMapRegion"
    /\ vLat = Num(900001)
    /\ vLng = Num(0)
    /\ selectedLocation.latitude = Num(3476)

\* the step consumed a map press with a coordinate in range
ValidTap(in) ==
    in.kind = "tap" /\ in.has /\ FiniteInRange(in.latitude, in.longitude)

\* C15: a valid map press sets selectedLocation to the pressed coordinate and
\* both text fields to text that parses to it, in the step that issues the
\* reverse-geocode request; no outcome of a reverse-geocode request changes
\* selectedLocation or the text fields, and none is needed for them to stand.
C15_TapCommitsBeforeLookup ==
    [][/\ ValidTap(lastInput') =>
             /\ selectedLocation' = Point(lastInput'.latitude, lastInput'.longitude)
             /\ parseFloat(deliveryLat') = lastInput'.latitude
             /\ parseFloat(deliveryLng') = lastInput'.longitude
             /\ geocodes' =
                    Append(geocodes, Point(lastInput'.latitude, lastInput'.longitude))
       /\ lastInput'.kind = "geocode" =>
             UNCHANGED <<selectedLocation, deliveryLat, deliveryLng>>]_vars

\* C15 witness: the lookup for the press at (0.35, 32.58) failed, and the
\* selection and the text fields hold the pressed coordinate
C15_Witness ==
    /\ lastInput.kind = "geocode"
    /\ ~lastInput.outcome.ok
    /\ lastInput.latitude = Num(3500)
    /\ selectedLocation = Point(Num(3500), Num(325800))
    /\ parseFloat(deliveryLat) = Num(3500)
    /\ parseFloat(deliveryLng) = Num(325800)

---------------------------------------------------------------------------
(* The map picker with time: the timer of the map loading effect counts     *)
(* down while time passes and fires when its delay has passed.              *)

\* one time unit passes while the timer is pending and not yet due
Tick ==
    /\ mapTimeout > 1
    /\ mapTimeout' = mapTimeout - 1
    /\ elapsed' = elapsed + 1
    /\ notice' = "none"
    /\ orderData' = NoOrder
    /\ lastInput' = NoInput
    /\ UNCHANGED <<resetVars, authVars, mapVars, valVars, textVars, shopVars, permVars, phase,
                   orderBtnDisabled>>

\* the last time unit of the delay passes: the callback runs setMapError(true)
MapTimeoutFires ==
    /\ mapTimeout = 1
    /\ mapError' = TRUE
    /\ notice' = "none"
    /\ UNCHANGED <<resetVars, authVars, valVars, textVars, shopVars, permVars, phase, showMap,
                   mapRegion, selectedLocation, locationPermission, mapReady, locating,
                   geocodes>>
    /\ orderData' = NoOrder
    /\ lastInput' = NoInput
    /\ Render

InitMap ==
    /\ token = TRUE
    /\ userLat = Num(10000)
    /\ userLng = Num(325000)
    /\ userAddress = <<>>
    /\ catalogue = <<>>
    /\ InitScreen
    /\ InitNoValidate

NextMap ==
    \/ Mount
    \/ \E d \in Responses : LoadSucceeds("other", d)
    \/ OpenMap
    \/ CloseMap
    \/ MapReady
    \/ \E ev \in TapEvents : MapPress(ev)
    \/ ConfirmLocation
    \/ Tick
    \/ MapTimeoutFires

SpecMap == InitMap /\ [][NextMap]_vars

\* C16: every opening of the picker starts loading (mapReady and mapError
\* false, no loading time passed) whatever the previous opening left; mapReady
\* becomes true only from the loading state of the open picker; mapError becomes
\* true only when the picker has been open and loading for 30 time units, and
\* the picker never stays loading beyond them.
C16_MapReadinessMachine ==
    /\ [](showMap /\ ~mapReady /\ ~mapError => elapsed < 30)
    /\ [][/\ (~showMap /\ showMap') => (~mapReady' /\ ~mapError' /\ elapsed' = 0)
          /\ (~mapReady /\ mapReady') => (showMap /\ ~mapError /\ showMap' /\ ~mapError')
          /\ (~mapError /\ mapError') =>
                 (showMap /\ ~mapReady /\ elapsed + 1 = 30 /\ showMap' /\ ~mapReady')]_vars

\* C16 witness: the picker is open in the error state the timeout put it in
C16_Witness == showMap /\ mapError /\ ~mapReady /\ mapTimeout = 0

\* C17: a timer is pending only while the picker is open and the map neither
\* ready nor failed, and it is the timer armed at this opening: its remaining
\* time and the time this opening has been loading add up to 30.
C17_TimerOnlyWhileLoading ==
    mapTimeout > 0 =>
        /\ showMap
        /\ ~mapReady
        /\ ~mapError
        /\ mapTimeout + elapsed = 30

\* C17 witness: the picker was closed by Confirm Location while the map was
\* loading, and no timer is pending
C17_Witness ==
    /\ notice = "Location Selected"
    /\ ~showMap
    /\ ~mapReady
    /\ ~mapError
    /\ mapTimeout = 0

---------------------------------------------------------------------------
(* Position fetches, reverse geocoding, confirmation *)

\* C18: a rejected getCurrentPositionAsync call, of the mount effect or of the
\* current-location button, raises no alert and leaves selectedLocation,
\* mapRegion, deliveryLat, deliveryLng and deliveryAddress as they were.
C18_FailedFetchIsSilent ==
    [][lastInput'.kind \in {"fixRejected", "locateRejected"} =>
          /\ notice' = "none"
          /\ UNCHANGED <<selectedLocation, mapRegion, deliveryLat, deliveryLng,
                         deliveryAddress>>]_vars

\* the lookup gave nothing to build an address from: it failed, returned no
\* result, or returned a first result whose parts are all empty
NoAddressFound(outcome) ==
    \/ ~outcome.ok
    \/ outcome.results = <<>>
    \/ \A k \in 1..Len(outcome.results[1]) : outcome.results[1][k] = <<>>

C20_ConfirmSyncsTextFields ==
    notice = "Location Selected" =>
        /\ parseFloat(deliveryLat) = selectedLocation.latitude
        /\ parseFloat(deliveryLng) = selectedLocation.longitude

---------------------------------------------------------------------------
(* Properties of the order flow: inventory loads, payload, flags *)

\* the positions of a response that hold an available product with stock
Offered(data) ==
    {i \in 1..Len(data) : data[i].isAvailable /\ data[i].stockQuantity > 0}

\* C21: when an inventory load completes, the product list holds exactly the
\* returned products that are available and have stock, in the order returned;
\* when a load fails, the list is as before and a non-empty error message is
\* recorded.
C21_LoadFiltersInventory ==
    [][/\ lastInput'.kind = "load" =>
             /\ Len(cylinders') = Cardinality(Offered(lastInput'.data))
             /\ \A k \in 1..Len(cylinders') :
                    \E i \in Offered(lastInput'.data) :
                        /\ cylinders'[k] = lastInput'.data[i]
                        /\ Cardinality({j \in Offered(lastInput'.data) : j <= i}) = k
       /\ lastInput'.kind = "loadFailed" =>
             /\ cylinders' = cylinders
             /\ error' # <<>>]_vars

\* C21 witness: a response listing a product that has stock but is not
\* available was loaded over a list that offered it
C21_Witness ==
    /\ lastInput.kind = "load"
    /\ \E i \in 1..Len(lastInput.data) :
           ~lastInput.data[i].isAvailable /\ lastInput.data[i].stockQuantity > 0
    /\ cylinders = <<>>
    /\ cart # <<>>

\* the text has a character that is not a space
HasText(t) == \E k \in 1..Len(t) : t[k] # " "

\* inner is outer without the spaces at its two ends
IsTrimOf(inner, outer) ==
    /\ inner # <<>>
    /\ inner[1] # " "
    /\ inner[Len(inner)] # " "
    /\ \E a \in 0..Len(outer) :
           /\ a + Len(inner) <= Len(outer)
           /\ SubSeq(outer, a + 1, a + Len(inner)) = inner
           /\ \A k \in 1..Len(outer) :
                  (k <= a \/ k > a + Len(inner)) => outer[k] = " "

\* C22: the payload of every createOrder call has one line per cart line with
\* that line's product and quantity, at least one line, the trimmed non-empty
\* delivery address, and the coordinate the two text fields parse to, which is
\* finite and in range; it has specialInstructions exactly when the
\* instructions hold more than spaces, and then the trimmed instructions. A
\* call is made only with a token.
C22_PayloadFromTextFields ==
    orderData # NoOrder =>
        /\ token
        /\ Len(orderData.items) > 0
        /\ Len(orderData.items) = Len(cart)
        /\ \A i \in 1..Len(cart) :
               orderData.items[i] =
                   [cylinderId |-> cart[i].id, quantity |-> cart[i].quantity]
        /\ IsTrimOf(orderData.deliveryAddress, deliveryAddress)
        /\ orderData.deliveryLatitude = parseFloat(deliveryLat)
        /\ orderData.deliveryLongitude = parseFloat(deliveryLng)
        /\ FiniteInRange(orderData.deliveryLatitude, orderData.deliveryLongitude)
        /\ (orderData.specialInstructions # <<>>) <=> HasText(instructions)
        /\ orderData.specialInstructions # <<>> =>
               IsTrimOf(orderData.specialInstructions[1], instructions)

\* C22 witness: an order was submitted with the latitude text "2" while
\* selectedLocation is at latitude 1, with a padded address and blank
\* instructions
C22_Witness ==
    /\ orderData # NoOrder
    /\ orderData.deliveryLatitude = Num(20000)
    /\ selectedLocation.latitude = Num(10000)
    /\ deliveryAddress = StrKlaPadded
    /\ instructions = StrBlank
    /\ orderData.specialInstructions = <<>>

\* C29: updateQuantity(id, -1) on a line whose quantity is 2 or more leaves the
\* line in place with its quantity lowered by exactly 1, whatever stock the
\* list showed when the line was added to.
C29_DecrementAlwaysLowers ==
    (lastInput.kind = "updateQuantity" /\ lastInput.change = -1) =>
        \A i \in LinesOf(lastInput.before, lastInput.id) :
            lastInput.before[i].quantity >= 2 =>
                /\ Len(cart) = Len(lastInput.before)
                /\ cart[i].quantity = lastInput.before[i].quantity - 1

\* C26: whenever a createOrder call is outstanding the loading flag is true.
C26_LoadingWhileSubmitting == pendingOrders > 0 => loading

---------------------------------------------------------------------------
(* The order flow with responsive APIs: every outstanding createOrder and   *)
(* getAllGasCylinders call is eventually answered.                          *)

\* an outstanding createOrder call settles: what OrderSucceeds and OrderFails
\* do to the count of outstanding calls
OrderResponds == pendingOrders > 0 /\ pendingOrders' = pendingOrders - 1

\* an outstanding getAllGasCylinders call settles: what LoadSucceeds and
\* LoadFails do to the outstanding loads
LoadResponds ==
    \E o \in LoadOrigins : loads[o] > 0 /\ loads' = [loads EXCEPT ![o] = @ - 1]

SpecLive ==
    /\ InitOrder
    /\ [][NextOrder]_vars
    /\ WF_pendingOrders(OrderResponds)
    /\ WF_loads(LoadResponds)

\* C23: with responsive APIs, every state with a createOrder call outstanding
\* is followed by a state in which loading is false and no createOrder call is
\* outstanding, and every state with an inventory load outstanding by one in
\* which loading is false and no load is outstanding.
C23_ReturnsToEditable ==
    /\ (pendingOrders > 0) ~> (~loading /\ pendingOrders = 0)
    /\ (LoadsInFlight > 0) ~> (~loading /\ LoadsInFlight = 0)

---------------------------------------------------------------------------
(* Cart and location together: one product in stock, the location flow of   *)
(* a user with stored coordinates.                                          *)

\* inventory responses offering the product with one unit in stock, or nothing
FrameResponses ==
    {d \in Responses : \A i \in 1..Len(d) : d[i].isAvailable /\ d[i].stockQuantity <= 1}

\* lookup results with no result at all and with a full address
FrameGeocodeOutcomes ==
    {o \in GeocodeOutcomes : o.ok /\ (o.results = <<>> \/ NonEmpty(o.results[1][1]))}

InitFrame ==
    /\ token = TRUE
    /\ userLat = Num(10000)
    /\ userLng = Num(325000)
    /\ userAddress = <<>>
    /\ catalogue = <<"a">>
    /\ InitScreen
    /\ InitNoValidate

NextFrame ==
    \/ Mount
    \/ \E d \in FrameResponses : LoadSucceeds("other", d)
    \/ \E i \in 1..Len(catalogue) : AddToCartPress(i)
    \/ \E i \in 1..Len(catalogue) : UpdateQuantityPress(i, -1)
    \/ \E t \in LatTexts : EditLat(t)
    \/ \E o \in {"granted", "denied"} : PermissionSettles(o)
    \/ \E f \in FixCoords : FixResolves(f)
    \/ OpenMap
    \/ \E ev \in TapEvents : MapPress(ev)
    \/ ConfirmLocation
    \/ CurrentLocationPress
    \/ \E f \in FixCoords : LocateResolves(f)
    \/ \E i \in 1..MaxGeocodes, o \in FrameGeocodeOutcomes : GeocodeSettles(i, o)
    \/ PlaceOrderPress
    \/ OrderFails(<<>>)

SpecFrame == InitFrame /\ [][NextFrame]_vars

\* C24: no step changes both the cart and one of selectedLocation, mapRegion,
\* deliveryLat, deliveryLng, deliveryAddress: a step that changes the cart
\* leaves the location state as it was, and a GPS fix, map press,
\* current-location result, confirmation, lookup result or manual edit leaves
\* the cart as it was; an order payload, which holds both, is issued only by
\* the step that starts a submission.
C24_CartAndLocationIndependent ==
    [][/\ cart' # cart =>
             UNCHANGED <<selectedLocation, mapRegion, deliveryLat, deliveryLng,
                         deliveryAddress>>
       /\ (\/ lastInput'.kind \in {"fix", "tap", "locate", "geocode"}
           \/ notice' = "Location Selected"
           \/ deliveryLat' # deliveryLat) => cart' = cart
       /\ orderData' # NoOrder =>
             /\ pendingOrders' = pendingOrders + 1
             /\ UNCHANGED <<cart, deliveryLat, deliveryLng, deliveryAddress>>
             /\ Len(orderData'.items) = Len(cart)
             /\ orderData'.deliveryLatitude = parseFloat(deliveryLat)
             /\ orderData'.deliveryLongitude = parseFloat(deliveryLng)]_vars

\* C24 witness: with a line in the cart, the lookup started by a map press
\* returned an address
C24_Witness ==
    /\ cart # <<>>
    /\ lastInput.kind = "geocode"
    /\ deliveryAddress = StrPlot \o <<",", " ">> \o StrKla
    /\ selectedLocation = Point(Num(3500), Num(325800))

---------------------------------------------------------------------------
\* C25: the permission request passes from not requested to requested to
\* granted or denied and never back; the position fetch of the mount effect
\* starts only in the step where the request returns granted; a request that
\* is denied or throws leaves locationPermission false and starts no fetch;
\* pressing the current-location button without permission starts no
\* position fetch and changes no location state, it only raises the
\* 'Permission Required' notice.
C25_PermissionMachine ==
    [][/\ permPc' # permPc =>
             \/ permPc = "idle" /\ permPc' = "permission"
             \/ permPc = "permission" /\ permPc' \in {"position", "done"}
             \/ permPc = "position" /\ permPc' = "done"
       /\ permPc' = "position" => locationPermission'
       /\ (permPc' = "position" /\ permPc # "position") =>
             lastInput' = [kind |-> "permission", outcome |-> "granted"]
       /\ (lastInput'.kind = "permission" /\ lastInput'.outcome # "granted") =>
             ~locationPermission' /\ permPc' = "done"
       /\ locationPermission' # locationPermission => lastInput'.kind = "permission"
       /\ (lastInput'.kind = "currentLocation" /\ ~locationPermission) =>
             /\ notice' = "Permission Required"
             /\ UNCHANGED <<locating, geocodes, selectedLocation, mapRegion,
                            deliveryLat, deliveryLng, deliveryAddress,
                            locationPermission>>]_vars

\* C25 witness: the request was denied or threw, and the current-location
\* button has just been pressed in the picker
C25_Witness ==
    /\ permPc = "done"
    /\ ~locationPermission
    /\ ~mountFix.has
    /\ lastInput.kind = "currentLocation"
    /\ notice = "Permission Required"
    /\ locating = 0

---------------------------------------------------------------------------
(* Overlapping address lookups: the coordinate fields are written by map    *)
(* presses and by the current-location button only, the address field by    *)
(* the lookups and by the user.                                             *)

NextRace ==
    \/ Mount
    \/ \E d \in FrameResponses : LoadSucceeds("other", d)
    \/ PermissionSettles("granted")
    \/ FixRejects
    \/ OpenMap
    \/ CloseMap
    \/ \E ev \in TapEvents : MapPress(ev)
    \/ CurrentLocationPress
    \/ \E f \in FixCoords : LocateResolves(f)
    \/ \E t \in AddressTexts : EditAddress(t)
    \/ \E i \in 1..MaxGeocodes, o \in GeocodeOutcomes : GeocodeSettles(i, o)

SpecRace == InitFrame /\ [][NextRace]_vars

\* C27: when a lookup response leaves no lookup outstanding, it is the
\* response for the coordinate held in deliveryLat and deliveryLng, so the
\* address is that of the most recently committed coordinate; and a response
\* arriving right after the user typed an address leaves that address alone.
C27_LatestLookupWins ==
    [][lastInput'.kind = "geocode" =>
           /\ geocodes' = <<>> =>
                  /\ lastInput'.latitude = parseFloat(deliveryLat')
                  /\ lastInput'.longitude = parseFloat(deliveryLng')
           /\ lastInput.kind = "editAddress" => deliveryAddress' = deliveryAddress]_vars

---------------------------------------------------------------------------
\* C28: mapReady and mapError are never both true; while mapError is true no
\* ready callback runs (mapReady stays false) and no map press is handled;
\* and mapError becomes false again only by the picker being opened again.
C28_ErrorAbsorbing ==
    /\ [](~(mapReady /\ mapError))
    /\ [][/\ mapError => (~mapReady' /\ lastInput'.kind # "tap")
          /\ (mapError /\ ~mapError') => (~showMap /\ showMap')]_vars

\* C28 witness: the map failed to load, the picker was closed with Confirm
\* Location, and the error state is still there
C28_Witness ==
    /\ mapError
    /\ ~mapReady
    /\ ~showMap
    /\ notice = "Location Selected"

---------------------------------------------------------------------------
(* The password-reset screen *)

UpperLetters ==
    <<"A", "B", "C", "D", "E", "F", "G", "H", "I", "J", "K", "L", "M",
      "N", "O", "P", "Q", "R", "S", "T", "U", "V", "W", "X", "Y", "Z">>
LowerLetters ==
    <<"a", "b", "c", "d", "e", "f", "g", "h", "i", "j", "k", "l", "m",
      "n", "o", "p", "q", "r", "s", "t", "u", "v", "w", "x", "y", "z">>

LowerChar(c) ==
    IF \E i \in 1..Len(UpperLetters) : UpperLetters[i] = c
    THEN LowerLetters[CHOOSE i \in 1..Len(UpperLetters) : UpperLetters[i] = c]
    ELSE c

\* String.prototype.toLowerCase
ToLowerCase(s) == [i \in 1..Len(s) |-> LowerChar(s[i])]

\* [^\s@]+ matches the whole of s
IsLocalPart(s) == s # <<>> /\ \A i \in 1..Len(s) : ~IsSpace(s[i]) /\ s[i] # "@"

\* /^[^\s@]+@[^\s@]+\.[^\s@]+$/.test(e)
isValidEmail(e) ==
    \E i \in 1..Len(e), j \in 1..Len(e) :
        /\ i < j
        /\ e[i] = "@"
        /\ e[j] = "."
        /\ IsLocalPart(SubSeq(e, 1, i - 1))
        /\ IsLocalPart(SubSeq(e, i + 1, j - 1))
        /\ IsLocalPart(SubSeq(e, j + 1, Len(e)))

\* the length the reset code must have, and maxLength of its input
CodeLength == 4
\* the least length of a new password
MinPasswordLength == 6

\* /^\d{4}$/.test(c)
IsFourDigits(c) == Len(c) = CodeLength /\ \A i \in 1..Len(c) : IsDigit(c[i])

\* resetCode.trim().length !== 4 || !/^\d{4}$/.test(resetCode.trim())
BadResetCode(code) == Len(Trim(code)) # CodeLength \/ ~IsFourDigits(Trim(code))

StrMailPadded == <<" ", "A", "@", "b", ".", "c", " ">>
Str1234 == <<"1", "2", "3", "4">>
StrPw6 == <<"a", "b", "c", "d", "e", "f">>

\* empty, blank, "a@b.c", the same padded in upper case, "a@b", "a @b.c"
EmailTexts ==
    {<<>>, StrBlank, <<"a", "@", "b", ".", "c">>, StrMailPadded, <<"a", "@", "b">>,
     <<"a", " ", "@", "b", ".", "c">>}
\* the code input has maxLength 4: empty, "1234", "123", " 123", "12a4"
CodeTexts ==
    {<<>>, Str1234, <<"1", "2", "3">>, <<" ", "1", "2", "3">>, <<"1", "2", "a", "4">>}
\* empty, five characters, six characters, six other characters
PasswordTexts ==
    {<<>>, <<"a", "b", "c", "d", "e">>, StrPw6, <<"a", "b", "c", "d", "e", "g">>}

\* what the reset screen leaves alone: the state of the order screen
placeOrderVars ==
    <<authVars, mapVars, permVars, valVars, textVars, orderVars, timerVars, phase,
      cylinders, cart, loading, error, loads, placedAlerts, stockRefreshed,
      orderBtnDisabled>>

\* the reset screen is shown and no alert covers it
ResetShown == resetRoute = "open" /\ resetAlert = "none"

\* the inputs and buttons are enabled: editable={!isLoading}, disabled={isLoading}
ResetEnabled == ResetShown /\ ~isLoading

\* onChangeText={setEmail}
EditEmail(t) ==
    /\ ResetEnabled
    /\ step = 1
    /\ email' = t
    /\ notice' = "none"
    /\ orderData' = NoOrder
    /\ lastInput' = NoInput
    /\ UNCHANGED <<placeOrderVars, resetCode, newPassword, confirmPassword, isLoading,
                   showNewPassword, showConfirmPassword, step, resetPending,
                   resetAlert, resetRoute>>

\* onChangeText={setResetCode}
EditResetCode(t) ==
    /\ ResetEnabled
    /\ step = 2
    /\ resetCode' = t
    /\ notice' = "none"
    /\ orderData' = NoOrder
    /\ lastInput' = NoInput
    /\ UNCHANGED <<placeOrderVars, email, newPassword, confirmPassword, isLoading,
                   showNewPassword, showConfirmPassword, step, resetPending,
                   resetAlert, resetRoute>>

\* onChangeText={setNewPassword}
EditNewPassword(t) ==
    /\ ResetEnabled
    /\ step = 2
    /\ newPassword' = t
    /\ notice' = "none"
    /\ orderData' = NoOrder
    /\ lastInput' = NoInput
    /\ UNCHANGED <<placeOrderVars, email, resetCode, confirmPassword, isLoading,
                   showNewPassword, showConfirmPassword, step, resetPending,
                   resetAlert, resetRoute>>

\* onChangeText={setConfirmPassword}
EditConfirmPassword(t) ==
    /\ ResetEnabled
    /\ step = 2
    /\ confirmPassword' = t
    /\ notice' = "none"
    /\ orderData' = NoOrder
    /\ lastInput' = NoInput
    /\ UNCHANGED <<placeOrderVars, email, resetCode, newPassword, isLoading,
                   showNewPassword, showConfirmPassword, step, resetPending,
                   resetAlert, resetRoute>>

toggleNewPasswordVisibility ==
    /\ ResetEnabled
    /\ step = 2
    /\ showNewPassword' = ~showNewPassword
    /\ notice' = "none"
    /\ orderData' = NoOrder
    /\ lastInput' = NoInput
    /\ UNCHANGED <<placeOrderVars, email, resetCode, newPassword, confirmPassword,
                   isLoading, showConfirmPassword, step, resetPending, resetAlert,
                   resetRoute>>

toggleConfirmPasswordVisibility ==
    /\ ResetEnabled
    /\ step = 2
    /\ showConfirmPassword' = ~showConfirmPassword
    /\ notice' = "none"
    /\ orderData' = NoOrder
    /\ lastInput' = NoInput
    /\ UNCHANGED <<placeOrderVars, email, resetCode, newPassword, confirmPassword,
                   isLoading, showNewPassword, step, resetPending, resetAlert,
                   resetRoute>>

\* handleSendResetCode up to its await
handleSendResetCode ==
    /\ ResetEnabled
    /\ step = 1
    /\ IF Trim(email) = <<>> \/ ~isValidEmail(Trim(email))
       THEN /\ resetAlert' = "Error"
            /\ notice' = "Error"
            /\ UNCHANGED <<isLoading, resetPending>>
       ELSE /\ isLoading' = TRUE
            /\ resetPending' = [kind |-> "forgotPassword",
                                email |-> Trim(ToLowerCase(email))]
            /\ notice' = "none"
            /\ UNCHANGED resetAlert
    /\ orderData' = NoOrder
    /\ lastInput' = [kind |-> "sendResetCode"]
    /\ UNCHANGED <<placeOrderVars, email, resetCode, newPassword, confirmPassword,
                   showNewPassword, showConfirmPassword, step, resetRoute>>

\* forgotPassword settles: the success alert or the error alert, then finally
ForgotPasswordSettles(ok) ==
    /\ resetPending.kind = "forgotPassword"
    /\ resetPending' = NoRequest
    /\ resetAlert' = (IF ok THEN "Reset Code Sent" ELSE "Error")
    /\ notice' = resetAlert'
    /\ isLoading' = FALSE
    /\ orderData' = NoOrder
    /\ lastInput' = [kind |-> "forgotPasswordSettled", ok |-> ok]
    /\ UNCHANGED <<placeOrderVars, email, resetCode, newPassword, confirmPassword,
                   showNewPassword, showConfirmPassword, step, resetRoute>>

\* handleResetPassword up to its await
handleResetPassword ==
    /\ ResetEnabled
    /\ step = 2
    /\ IF \/ Trim(resetCode) = <<>>
          \/ BadResetCode(resetCode)
          \/ newPassword = <<>>
          \/ Len(newPassword) < MinPasswordLength
          \/ newPassword # confirmPassword
       THEN /\ resetAlert' = "Error"
            /\ notice' = "Error"
            /\ UNCHANGED <<isLoading, resetPending>>
       ELSE /\ isLoading' = TRUE
            /\ resetPending' = [kind |-> "resetPassword", token |-> Trim(resetCode),
                                newPassword |-> newPassword]
            /\ notice' = "none"
            /\ UNCHANGED resetAlert
    /\ orderData' = NoOrder
    /\ lastInput' = [kind |-> "resetPassword"]
    /\ UNCHANGED <<placeOrderVars, email, resetCode, newPassword, confirmPassword,
                   showNewPassword, showConfirmPassword, step, resetRoute>>

\* resetPassword settles: the success alert or the error alert, then finally
ResetPasswordSettles(ok) ==
    /\ resetPending.kind = "resetPassword"
    /\ resetPending' = NoRequest
    /\ resetAlert' = (IF ok THEN "Success" ELSE "Error")
    /\ notice' = resetAlert'
    /\ isLoading' = FALSE
    /\ orderData' = NoOrder
    /\ lastInput' = [kind |-> "resetPasswordSettled", ok |-> ok]
    /\ UNCHANGED <<placeOrderVars, email, resetCode, newPassword, confirmPassword,
                   showNewPassword, showConfirmPassword, step, resetRoute>>

\* the OK button of the alert on screen: setStep(2) after 'Reset Code Sent',
\* router.replace('/') after 'Success'
AcknowledgeAlert ==
    /\ resetRoute = "open"
    /\ resetAlert # "none"
    /\ resetAlert' = "none"
    /\ step' = (IF resetAlert = "Reset Code Sent" THEN 2 ELSE step)
    /\ resetRoute' = (IF resetAlert = "Success" THEN "login" ELSE resetRoute)
    /\ notice' = "none"
    /\ orderData' = NoOrder
    /\ lastInput' = [kind |-> "acknowledge"]
    /\ UNCHANGED <<placeOrderVars, email, resetCode, newPassword, confirmPassword,
                   isLoading, showNewPassword, showConfirmPassword, resetPending>>

\* the back button leaving step 2 with the fields as they are
handleGoBackKeepsFields ==
    /\ ResetEnabled
    /\ IF step = 2
       THEN /\ step' = 1
            /\ UNCHANGED <<resetCode, newPassword, confirmPassword, resetRoute>>
       ELSE /\ resetRoute' = "back"
            /\ UNCHANGED <<step, resetCode, newPassword, confirmPassword>>
    /\ notice' = "none"
    /\ orderData' = NoOrder
    /\ lastInput' = [kind |-> "goBack"]
    /\ UNCHANGED <<placeOrderVars, email, isLoading, showNewPassword,
                   showConfirmPassword, resetPending, resetAlert>>

\* the back button of the header
handleGoBack ==
    /\ ResetEnabled
    /\ IF step = 2
       THEN /\ step' = 1
            /\ resetCode' = <<>>
            /\ newPassword' = <<>>
            /\ confirmPassword' = <<>>
            /\ UNCHANGED resetRoute
       ELSE /\ resetRoute' = "back"
            /\ UNCHANGED <<step, resetCode, newPassword, confirmPassword>>
    /\ notice' = "none"
    /\ orderData' = NoOrder
    /\ lastInput' = [kind |-> "goBack"]
    /\ UNCHANGED <<placeOrderVars, email, isLoading, showNewPassword,
                   showConfirmPassword, resetPending, resetAlert>>

\* the 'Request New Code' button of step 2: setStep(1)
RequestNewCode ==
    /\ ResetEnabled
    /\ step = 2
    /\ step' = 1
    /\ notice' = "none"
    /\ orderData' = NoOrder
    /\ lastInput' = [kind |-> "requestNewCode"]
    /\ UNCHANGED <<placeOrderVars, email, resetCode, newPassword, confirmPassword,
                   isLoading, showNewPassword, showConfirmPassword, resetPending,
                   resetAlert, resetRoute>>

\* nobody is signed in on the password-reset screen
InitForgotPassword ==
    /\ token = FALSE
    /\ userLat = Undefined
    /\ userLng = Undefined
    /\ userAddress = <<>>
    /\ catalogue = <<>>
    /\ InitScreen
    /\ InitNoValidate

NextReset ==
    \/ \E t \in EmailTexts : EditEmail(t)
    \/ \E t \in CodeTexts : EditResetCode(t)
    \/ \E t \in PasswordTexts : EditNewPassword(t)
    \/ \E t \in PasswordTexts : EditConfirmPassword(t)
    \/ toggleNewPasswordVisibility
    \/ toggleConfirmPasswordVisibility
    \/ handleSendResetCode
    \/ \E ok \in BOOLEAN : ForgotPasswordSettles(ok)
    \/ handleResetPassword
    \/ \E ok \in BOOLEAN : ResetPasswordSettles(ok)
    \/ AcknowledgeAlert
    \/ handleGoBack
    \/ RequestNewCode

SpecReset == InitForgotPassword /\ [][NextReset]_vars

\* C30: step 2 is entered only by acknowledging the 'Reset Code Sent' alert,
\* which only a successful forgotPassword call raises, and that call is made
\* only for an email whose trimmed text is non-empty and matches the email
\* pattern; resetPassword is called only with a trimmed code of exactly four
\* digits and a new password of at least six characters equal to the
\* confirmation; the back button at step 2 leads to step 1 with the code and
\* both password fields empty; isLoading is true exactly while a call is
\* outstanding, so it is false again once the call has settled.
C30_ResetFlow ==
    /\ [](isLoading <=> resetPending.kind # "none")
    /\ [][/\ (step = 1 /\ step' = 2) =>
                 /\ resetAlert = "Reset Code Sent"
                 /\ lastInput'.kind = "acknowledge"
                 /\ Trim(email) # <<>>
                 /\ isValidEmail(Trim(email))
          /\ (resetAlert' = "Reset Code Sent" /\ resetAlert # "Reset Code Sent") =>
                 /\ resetPending.kind = "forgotPassword"
                 /\ lastInput' = [kind |-> "forgotPasswordSettled", ok |-> TRUE]
          /\ (resetPending'.kind = "forgotPassword" /\ resetPending.kind = "none") =>
                 /\ Trim(email) # <<>>
                 /\ isValidEmail(Trim(email))
                 /\ resetPending'.email = Trim(ToLowerCase(email))
          /\ (resetPending'.kind = "resetPassword" /\ resetPending.kind = "none") =>
                 /\ IsFourDigits(Trim(resetCode))
                 /\ Len(newPassword) >= MinPasswordLength
                 /\ newPassword = confirmPassword
                 /\ resetPending'.token = Trim(resetCode)
                 /\ resetPending'.newPassword = newPassword
          /\ (lastInput'.kind = "goBack" /\ step = 2) =>
                 /\ step' = 1
                 /\ resetCode' = <<>>
                 /\ newPassword' = <<>>
                 /\ confirmPassword' = <<>>
          /\ lastInput'.kind \in {"forgotPasswordSettled", "resetPasswordSettled"} =>
                 ~isLoading']_vars

\* C30 witness: at step 2, entered for the padded upper-case email, the
\* resetPassword call made with code 1234 has succeeded and isLoading is false
C30_Witness ==
    /\ step = 2
    /\ email = StrMailPadded
    /\ resetCode = Str1234
    /\ newPassword = StrPw6
    /\ resetAlert = "Success"
    /\ ~isLoading

===========================================================================
